---------------------------- MODULE Spec2Model ----------------------------
(***************************************************************************)
(* jh::callStaticMethod (src/_android/calls/StaticCaller.hpp).             *)
(*                                                                         *)
(* Each native thread may run callStaticMethod; a call is cut into the     *)
(* steps between which another thread can run: entry (lines 115-121),      *)
(* FindClass (123), the class-not-found branch (124-127),                  *)
(* GetStaticMethodID (129), the method-not-found branch (130-133) and the  *)
(* dispatch through StaticCaller (135).  The Java runtime is the           *)
(* environment: its lookups answer nondeterministically, a failed lookup   *)
(* leaves a Java exception pending in the calling thread, and a class      *)
(* found is handed out as a new local reference of the calling thread.     *)
(***************************************************************************)
EXTENDS Integers, Sequences, FiniteSets, TLC

\* Total number of callStaticMethod calls entered in one behaviour.
MaxCalls == 2

Threads == {"t1", "t2"}

VARIABLES
    pc,                \* per thread: position inside callStaticMethod
    frame,             \* per thread: parameters and locals of callStaticMethod
    trace,             \* per thread: calls made by the current call to the
                       \*   Java runtime and to reportInternalError, in order
    localRefs,         \* per thread: jclass local references obtained by
                       \*   callStaticMethod and not deleted
    pendingException,  \* per thread: a Java exception is pending
    attached,          \* per thread: the thread has a JNI environment
    crashed,           \* the process was killed (SIGSEGV / runtime abort)
    callsMade          \* calls entered so far

vars == <<pc, frame, trace, localRefs, pendingException, attached, crashed,
          callsMade>>

-----------------------------------------------------------------------------
(* Template arguments and the type tables                                   *)

\* ReturnType as written by the caller (doc comment, lines 103-110).
ReturnTypes ==
    {"void", "bool", "int", "long", "float", "double", "std::string", "Example"}

\* ToJavaType<T>::Type and ToJavaType<T>::CallReturnType (core/ToJavaType.hpp).
ToJavaType(T) ==
    CASE T = "void"   -> [Type |-> "void",     CallReturnType |-> "void"]
      [] T = "bool"   -> [Type |-> "jboolean", CallReturnType |-> "jboolean"]
      [] T = "int"    -> [Type |-> "jint",     CallReturnType |-> "jint"]
      [] T = "long"   -> [Type |-> "jlong",    CallReturnType |-> "jlong"]
      [] T = "float"  -> [Type |-> "jfloat",   CallReturnType |-> "jfloat"]
      [] T = "double" -> [Type |-> "jdouble",  CallReturnType |-> "jdouble"]
      [] T = "std::string" -> [Type |-> "jstring", CallReturnType |-> "jobject"]
      [] OTHER        -> [Type |-> "jobject",  CallReturnType |-> "jobject"]

\* JH_JAVA_CUSTOM_CLASS(Example, "com/class/path/Example") and className().
JavaClassTypes == {"Example"}

JavaClassName(J) ==
    CASE J = "Example" -> "com/class/path/Example"
      [] OTHER -> ""

\* One type's encoding in the Java signature grammar.
JavaTypeSignature(T) ==
    CASE T = "void"   -> "V"
      [] T = "bool"   -> "Z"
      [] T = "int"    -> "I"
      [] T = "long"   -> "J"
      [] T = "float"  -> "F"
      [] T = "double" -> "D"
      [] T = "std::string" -> "Ljava/lang/String;"
      [] OTHER        -> "L" \o JavaClassName(T) \o ";"

\* getJavaMethodSignature<ReturnType, ArgumentTypes...>(), as a sequence of
\* the pieces the string is concatenated from.
getJavaMethodSignature(R, As) ==
    <<"(">> \o [i \in 1..Len(As) |-> JavaTypeSignature(As[i])] \o
    <<")", JavaTypeSignature(R)>>

-----------------------------------------------------------------------------
(* Values and handles                                                       *)

NullEnv == [thread |-> ""]
\* getCurrentJNIEnvironment() in an attached thread: that thread's JNIEnv.
EnvOf(t) == [thread |-> t]

NullClass == [cls |-> "", thread |-> "", ref |-> 0]
NullMethod == [cls |-> "", name |-> "", sig |-> <<>>]

VoidValue == [kind |-> "void", v |-> 0]

\* RealReturnType(): value-initialisation (zero, false, null pointer).
DefaultValue(RealReturnType) ==
    IF RealReturnType = "void" THEN VoidValue
    ELSE [kind |-> RealReturnType, v |-> 0]

\* static_cast<RealReturnType>(x): the same number or pointer, retyped.
StaticCast(RealReturnType, x) ==
    IF RealReturnType = "void" THEN VoidValue
    ELSE [kind |-> RealReturnType, v |-> x.v]

\* What a Java method can hand back (0: zero / false / null).
JavaPayloads == {0, 1}

-----------------------------------------------------------------------------
(* What the callers pass                                                    *)

\* The class of the usage example; whether the runtime finds it is the
\* runtime's answer (FindClassResults), not a property of the name.
ClassNames == {"com/class/path/Example"}

\* The two methods of the usage example: sumMethod(4, 5) and voidMethodName().
CallSites ==
    { [methodName |-> "sumMethod", ArgumentTypes |-> <<"int", "int">>,
       arguments |-> <<4, 5>>],
      [methodName |-> "voidMethodName", ArgumentTypes |-> <<>>,
       arguments |-> <<>>] }

-----------------------------------------------------------------------------
(* Calls out of callStaticMethod, as recorded in trace                      *)

Event(op) ==
    [op |-> op, text |-> <<>>, sig |-> <<>>, cls |-> NullClass,
     mid |-> NullMethod, args |-> <<>>, ret |-> VoidValue]

\* env->FindClass(className.c_str()) answering javaClass.
FindClassEvent(className, javaClass) ==
    [Event("FindClass") EXCEPT !.text = <<className>>, !.cls = javaClass]

\* env->GetStaticMethodID(javaClass, methodName, methodSignature) answering
\* javaMethod.
GetStaticMethodIDEvent(javaClass, methodName, methodSignature, javaMethod) ==
    [Event("GetStaticMethodID") EXCEPT !.cls = javaClass, !.text = <<methodName>>,
                                       !.sig = methodSignature, !.mid = javaMethod]

\* env->CallStatic<X>Method(javaClass, javaMethod, arguments...) answering ret.
CallEvent(variant, javaClass, javaMethod, arguments, ret) ==
    [Event(variant) EXCEPT !.cls = javaClass, !.mid = javaMethod,
                           !.args = arguments, !.ret = ret]

\* reportInternalError(message): the diagnostic handed to the error reporter.
reportInternalError(message) ==
    [Event("reportInternalError") EXCEPT !.text = message]

ClassNotFoundMessage(className) ==
    <<"class not found [", className, "]">>

MethodNotFoundMessage(methodName, className, methodSignature) ==
    <<"method [", methodName, "] for class [", className,
      "] not found, tried signature [">> \o methodSignature \o <<"]">>

-----------------------------------------------------------------------------
(* StaticCaller<CallReturnType, ...>::call                                  *)

\* Faulty variant: the jint and jlong specialisations call each other's
\* JNI function.
StaticCallerSwapped(CallReturnType) ==
    CASE CallReturnType = "void"     -> "CallStaticVoidMethod"
      [] CallReturnType = "jboolean" -> "CallStaticBooleanMethod"
      [] CallReturnType = "jint"     -> "CallStaticLongMethod"
      [] CallReturnType = "jlong"    -> "CallStaticIntMethod"
      [] CallReturnType = "jfloat"   -> "CallStaticFloatMethod"
      [] CallReturnType = "jdouble"  -> "CallStaticDoubleMethod"
      [] OTHER                       -> "CallStaticObjectMethod"

\* The specialisation chosen for CallReturnType names the JNI call it makes.
StaticCaller(CallReturnType) ==
    CASE CallReturnType = "void"     -> "CallStaticVoidMethod"
      [] CallReturnType = "jboolean" -> "CallStaticBooleanMethod"
      [] CallReturnType = "jint"     -> "CallStaticIntMethod"
      [] CallReturnType = "jlong"    -> "CallStaticLongMethod"
      [] CallReturnType = "jfloat"   -> "CallStaticFloatMethod"
      [] CallReturnType = "jdouble"  -> "CallStaticDoubleMethod"
      [] OTHER                       -> "CallStaticObjectMethod"

\* The JNI type each call variant returns.
VariantReturnType(variant) ==
    CASE variant = "CallStaticVoidMethod"    -> "void"
      [] variant = "CallStaticBooleanMethod" -> "jboolean"
      [] variant = "CallStaticIntMethod"     -> "jint"
      [] variant = "CallStaticLongMethod"    -> "jlong"
      [] variant = "CallStaticFloatMethod"   -> "jfloat"
      [] variant = "CallStaticDoubleMethod"  -> "jdouble"
      [] OTHER                               -> "jobject"

\* The values the Java method can return through a variant.
JavaReturns(variant) ==
    IF variant = "CallStaticVoidMethod" THEN {VoidValue}
    ELSE {[kind |-> VariantReturnType(variant), v |-> p] : p \in JavaPayloads}

-----------------------------------------------------------------------------
(* The frame of one call                                                    *)

NoFrame ==
    [via |-> "none", JavaClassType |-> "", ReturnType |-> "void",
     ArgumentTypes |-> <<>>, className |-> "", methodName |-> "",
     arguments |-> <<>>, givenMethodName |-> "", givenArguments |-> <<>>,
     env |-> NullEnv, methodSignature |-> <<>>, javaClass |-> NullClass,
     javaMethod |-> NullMethod, result |-> VoidValue]

\* getCurrentJNIEnvironment() in thread t: the thread's own environment, or
\* null when the thread has none.
getCurrentJNIEnvironment(t) == IF attached[t] THEN EnvOf(t) ELSE NullEnv

Init ==
    /\ pc = [t \in Threads |-> "idle"]
    /\ frame = [t \in Threads |-> NoFrame]
    /\ trace = [t \in Threads |-> <<>>]
    /\ localRefs = [t \in Threads |-> 0]
    /\ pendingException = [t \in Threads |-> FALSE]
    /\ attached \in [Threads -> BOOLEAN]
    /\ crashed = FALSE
    /\ callsMade = 0

-----------------------------------------------------------------------------
(* callStaticMethod, step by step                                           *)

RealReturnType(t) == ToJavaType(frame[t].ReturnType).Type

\* Parameters and first locals of callStaticMethod<ReturnType,
\* ArgumentTypes...>(className, methodName, arguments...): env (line 119) and
\* methodSignature (line 121); javaClass and javaMethod are not yet set.
EntryFrame(R, As, className, methodName, arguments, env) ==
    [NoFrame EXCEPT !.via = "direct", !.ReturnType = R, !.ArgumentTypes = As,
                    !.className = className, !.methodName = methodName,
                    !.arguments = arguments, !.givenMethodName = methodName,
                    !.givenArguments = arguments, !.env = env,
                    !.methodSignature = getJavaMethodSignature(R, As)]

\* A caller enters callStaticMethod<R, As...>(className, methodName, args...).
Enter(t, R, className, site) ==
    /\ ~crashed
    /\ pc[t] \in {"idle", "returned"}
    /\ callsMade < MaxCalls
    /\ frame' = [frame EXCEPT ![t] =
                  EntryFrame(R, site.ArgumentTypes, className, site.methodName,
                             site.arguments, getCurrentJNIEnvironment(t))]
    /\ pc' = [pc EXCEPT ![t] = "findClass"]
    /\ trace' = [trace EXCEPT ![t] = <<>>]
    /\ callsMade' = callsMade + 1
    /\ UNCHANGED <<localRefs, pendingException, attached, crashed>>

\* Faulty variant: class name and method name passed in the wrong order.
OverloadForwardSwapped(J, methodName, arguments) ==
    [className |-> methodName, methodName |-> JavaClassName(J),
     arguments |-> arguments]

\* What callStaticMethod<JavaClassType, ...>(methodName, arguments...) passes
\* on: JavaClassType::className(), methodName, arguments... (line 141).
OverloadForward(J, methodName, arguments) ==
    [className |-> JavaClassName(J), methodName |-> methodName,
     arguments |-> arguments]

\* A caller enters callStaticMethod<J, R, As...>(methodName, args...), which
\* enters callStaticMethod<R, As...> with what it forwards.
EnterOverload(t, J, R, site) ==
    /\ ~crashed
    /\ pc[t] \in {"idle", "returned"}
    /\ callsMade < MaxCalls
    /\ LET fwd == OverloadForward(J, site.methodName, site.arguments)
       IN  frame' = [frame EXCEPT ![t] =
                 [EntryFrame(R, site.ArgumentTypes, fwd.className, fwd.methodName,
                             fwd.arguments, getCurrentJNIEnvironment(t))
                    EXCEPT !.via = "overload", !.JavaClassType = J,
                           !.givenMethodName = site.methodName,
                           !.givenArguments = site.arguments]]
    /\ pc' = [pc EXCEPT ![t] = "findClass"]
    /\ trace' = [trace EXCEPT ![t] = <<>>]
    /\ callsMade' = callsMade + 1
    /\ UNCHANGED <<localRefs, pendingException, attached, crashed>>

\* The process dies: every thread, frame and reference goes with it.
ProcessKilled ==
    /\ crashed' = TRUE
    /\ pc' = [t \in Threads |-> "idle"]
    /\ frame' = [t \in Threads |-> NoFrame]
    /\ trace' = [t \in Threads |-> <<>>]
    /\ localRefs' = [t \in Threads |-> 0]
    /\ pendingException' = [t \in Threads |-> FALSE]
    /\ UNCHANGED <<attached, callsMade>>

\* Line 123 with env == nullptr: env->FindClass reads the function table
\* through a null JNIEnv*, which faults.
NullEnvCrash(t) ==
    /\ ~crashed
    /\ pc[t] = "findClass"
    /\ frame[t].env = NullEnv
    /\ ProcessKilled

\* What FindClass can answer in thread t: null, or a new local reference.
FindClassResults(t) ==
    {NullClass,
     [cls |-> frame[t].className, thread |-> t, ref |-> localRefs[t] + 1]}

\* Faulty variant: a first FindClass that fails is tried again.
FindClassWithRetry(t) ==
    /\ ~crashed
    /\ pc[t] = "findClass"
    /\ frame[t].env # NullEnv
    /\ \E found \in FindClassResults(t) :
         /\ frame' = [frame EXCEPT ![t].javaClass = found]
         /\ trace' = [trace EXCEPT ![t] =
                        @ \o << FindClassEvent(frame[t].className, NullClass),
                                FindClassEvent(frame[t].className, found) >>]
         /\ localRefs' = [localRefs EXCEPT ![t] =
                            IF found = NullClass THEN @ ELSE @ + 1]
         /\ pendingException' = [pendingException EXCEPT ![t] = TRUE]
    /\ pc' = [pc EXCEPT ![t] = "checkClass"]
    /\ UNCHANGED <<attached, crashed, callsMade>>

\* Line 123: jclass javaClass = env->FindClass(className.c_str()).
FindClass(t) ==
    /\ ~crashed
    /\ pc[t] = "findClass"
    /\ frame[t].env # NullEnv
    /\ \E found \in FindClassResults(t) :
         /\ frame' = [frame EXCEPT ![t].javaClass = found]
         /\ trace' = [trace EXCEPT ![t] =
                        Append(@, FindClassEvent(frame[t].className, found))]
         /\ localRefs' = [localRefs EXCEPT ![t] =
                            IF found = NullClass THEN @ ELSE @ + 1]
         /\ pendingException' = [pendingException EXCEPT ![t] =
                                   @ \/ found = NullClass]
    /\ pc' = [pc EXCEPT ![t] = "checkClass"]
    /\ UNCHANGED <<attached, crashed, callsMade>>

\* Faulty variant: failure is also read off env->ExceptionCheck().
ClassLookupFailedByExceptionCheck(t) ==
    frame[t].javaClass = NullClass \/ pendingException[t]

\* Line 124: javaClass == nullptr.
ClassLookupFailed(t) == frame[t].javaClass = NullClass

\* Faulty variant: the return of line 126 is missing, so line 129 runs with
\* the null class.
ClassNotFoundThenLookup(t) ==
    /\ ~crashed
    /\ pc[t] = "checkClass"
    /\ ClassLookupFailed(t)
    /\ trace' = [trace EXCEPT ![t] =
            @ \o << reportInternalError(ClassNotFoundMessage(frame[t].className)),
                    GetStaticMethodIDEvent(frame[t].javaClass, frame[t].methodName,
                                           frame[t].methodSignature, NullMethod) >>]
    /\ pc' = [pc EXCEPT ![t] = "checkMethod"]
    /\ UNCHANGED <<frame, localRefs, pendingException, attached, crashed,
                   callsMade>>

\* Lines 124-127: report "class not found [...]" and return RealReturnType().
ClassNotFound(t) ==
    /\ ~crashed
    /\ pc[t] = "checkClass"
    /\ ClassLookupFailed(t)
    /\ trace' = [trace EXCEPT ![t] =
            Append(@, reportInternalError(ClassNotFoundMessage(frame[t].className)))]
    /\ frame' = [frame EXCEPT ![t].result = DefaultValue(RealReturnType(t))]
    /\ pc' = [pc EXCEPT ![t] = "returned"]
    /\ UNCHANGED <<localRefs, pendingException, attached, crashed,
                   callsMade>>

\* Faulty variant: methodSignature is one static string, overwritten by
\* whichever call entered last.
SignatureOfLatestCaller(t) ==
    IF \E o \in Threads \ {t} : pc[o] \notin {"idle", "returned"}
    THEN frame[CHOOSE o \in Threads \ {t} : pc[o] \notin {"idle", "returned"}]
             .methodSignature
    ELSE frame[t].methodSignature

\* The signature string line 129 passes: this call's local methodSignature.
SignatureInUse(t) == frame[t].methodSignature

\* What GetStaticMethodID can answer: null, or the method's id.
GetStaticMethodIDResults(t) ==
    {NullMethod,
     [cls |-> frame[t].javaClass.cls, name |-> frame[t].methodName,
      sig |-> SignatureInUse(t)]}

\* Line 129: jmethodID javaMethod = env->GetStaticMethodID(javaClass,
\* methodName.c_str(), methodSignature.c_str()).
GetStaticMethodID(t) ==
    /\ ~crashed
    /\ pc[t] = "checkClass"
    /\ ~ClassLookupFailed(t)
    /\ \E found \in GetStaticMethodIDResults(t) :
         /\ frame' = [frame EXCEPT ![t].javaMethod = found]
         /\ trace' = [trace EXCEPT ![t] =
                Append(@, GetStaticMethodIDEvent(frame[t].javaClass,
                              frame[t].methodName, SignatureInUse(t), found))]
         /\ pendingException' = [pendingException EXCEPT ![t] =
                                   @ \/ found = NullMethod]
    /\ pc' = [pc EXCEPT ![t] = "checkMethod"]
    /\ UNCHANGED <<localRefs, attached, crashed, callsMade>>

\* Line 130: javaMethod == nullptr.
MethodLookupFailed(t) == frame[t].javaMethod = NullMethod

\* Faulty variant: the return of line 132 is missing, so line 135 runs with
\* the null method.
MethodNotFoundThenInvoke(t) ==
    /\ ~crashed
    /\ pc[t] = "checkMethod"
    /\ MethodLookupFailed(t)
    /\ LET variant == StaticCaller(ToJavaType(frame[t].ReturnType).CallReturnType)
       IN  \E ret \in JavaReturns(variant) :
             /\ trace' = [trace EXCEPT ![t] =
                  @ \o << reportInternalError(
                              MethodNotFoundMessage(frame[t].methodName,
                                  frame[t].className, frame[t].methodSignature)),
                          CallEvent(variant, frame[t].javaClass,
                                    frame[t].javaMethod, frame[t].arguments, ret) >>]
             /\ frame' = [frame EXCEPT ![t].result =
                                         StaticCast(RealReturnType(t), ret)]
    /\ pc' = [pc EXCEPT ![t] = "returned"]
    /\ UNCHANGED <<localRefs, pendingException, attached, crashed,
                   callsMade>>

\* Faulty variant: line 131 is missing, the default is returned unreported.
MethodNotFoundSilent(t) ==
    /\ ~crashed
    /\ pc[t] = "checkMethod"
    /\ MethodLookupFailed(t)
    /\ frame' = [frame EXCEPT ![t].result = DefaultValue(RealReturnType(t))]
    /\ pc' = [pc EXCEPT ![t] = "returned"]
    /\ UNCHANGED <<trace, localRefs, pendingException, attached, crashed,
                   callsMade>>

\* Lines 130-133: report "method [...] for class [...] not found, tried
\* signature [...]" and return RealReturnType().
MethodNotFound(t) ==
    /\ ~crashed
    /\ pc[t] = "checkMethod"
    /\ MethodLookupFailed(t)
    /\ trace' = [trace EXCEPT ![t] =
            Append(@, reportInternalError(
                          MethodNotFoundMessage(frame[t].methodName,
                              frame[t].className, frame[t].methodSignature)))]
    /\ frame' = [frame EXCEPT ![t].result = DefaultValue(RealReturnType(t))]
    /\ pc' = [pc EXCEPT ![t] = "returned"]
    /\ UNCHANGED <<localRefs, pendingException, attached, crashed,
                   callsMade>>

\* Line 135: return static_cast<RealReturnType>(StaticCaller<CallReturnType,
\* ...>::call(env, javaClass, javaMethod, arguments...)).
Invoke(t) ==
    /\ ~crashed
    /\ pc[t] = "checkMethod"
    /\ ~MethodLookupFailed(t)
    /\ LET variant == StaticCaller(ToJavaType(frame[t].ReturnType).CallReturnType)
       IN  \E ret \in JavaReturns(variant) :
             /\ trace' = [trace EXCEPT ![t] =
                    Append(@, CallEvent(variant, frame[t].javaClass,
                                  frame[t].javaMethod, frame[t].arguments, ret))]
             /\ frame' = [frame EXCEPT ![t].result =
                                         StaticCast(RealReturnType(t), ret)]
    /\ pc' = [pc EXCEPT ![t] = "returned"]
    /\ UNCHANGED <<localRefs, pendingException, attached, crashed,
                   callsMade>>

\* Thread t is about to make a JNI call (lines 123, 129, 135).
AtJNICall(t) ==
    \/ pc[t] = "findClass" /\ frame[t].env # NullEnv
    \/ pc[t] = "checkClass" /\ ~ClassLookupFailed(t)
    \/ pc[t] = "checkMethod" /\ ~MethodLookupFailed(t)

\* FindClass, GetStaticMethodID or CallStatic<X>Method entered while an
\* exception is pending in the thread: outside the JNI contract, and one
\* thing a runtime does then is abort the process.
JNIAbort(t) ==
    /\ ~crashed
    /\ pendingException[t]
    /\ AtJNICall(t)
    /\ ProcessKilled

Next ==
    \/ \E t \in Threads, R \in ReturnTypes, className \in ClassNames,
          site \in CallSites : Enter(t, R, className, site)
    \/ \E t \in Threads, J \in JavaClassTypes, R \in ReturnTypes,
          site \in CallSites : EnterOverload(t, J, R, site)
    \/ \E t \in Threads : NullEnvCrash(t)
    \/ \E t \in Threads : FindClass(t)
    \/ \E t \in Threads : ClassNotFound(t)
    \/ \E t \in Threads : GetStaticMethodID(t)
    \/ \E t \in Threads : MethodNotFound(t)
    \/ \E t \in Threads : Invoke(t)
    \/ \E t \in Threads : JNIAbort(t)

Spec == Init /\ [][Next]_vars

-----------------------------------------------------------------------------
(* callStaticMethod run from entry to return by one thread with nothing     *)
(* else running: what it reports and returns, given what the runtime        *)
(* answers (lines 114-136).                                                 *)

callStaticMethodAlone(R, As, className, methodName, javaClass, javaMethod, ret) ==
    LET methodSignature == getJavaMethodSignature(R, As)
        Type == ToJavaType(R).Type
    IN  IF javaClass = NullClass
        THEN [reported |-> <<ClassNotFoundMessage(className)>>,
              result |-> DefaultValue(Type)]
        ELSE IF javaMethod = NullMethod
        THEN [reported |-> <<MethodNotFoundMessage(methodName, className,
                                                   methodSignature)>>,
              result |-> DefaultValue(Type)]
        ELSE [reported |-> <<>>, result |-> StaticCast(Type, ret)]

-----------------------------------------------------------------------------
(* Reading a call's trace                                                   *)

Variants ==
    {"CallStaticVoidMethod", "CallStaticBooleanMethod", "CallStaticIntMethod",
     "CallStaticLongMethod", "CallStaticFloatMethod", "CallStaticDoubleMethod",
     "CallStaticObjectMethod"}

IsReport(e) == e.op = "reportInternalError"
IsFindClass(e) == e.op = "FindClass"
IsGetStaticMethodID(e) == e.op = "GetStaticMethodID"
IsInvocation(e) == e.op \in Variants

Reports(t) == SelectSeq(trace[t], IsReport)
FindClassCalls(t) == SelectSeq(trace[t], IsFindClass)
GetStaticMethodIDCalls(t) == SelectSeq(trace[t], IsGetStaticMethodID)
Invocations(t) == SelectSeq(trace[t], IsInvocation)
RuntimeCalls(t) == SelectSeq(trace[t], LAMBDA e : ~IsReport(e))

Returned(t) == pc[t] = "returned"

\* The class lookup of the current call answered null.
ClassLookupReturnedNull(t) ==
    \E i \in 1..Len(trace[t]) :
        IsFindClass(trace[t][i]) /\ trace[t][i].cls = NullClass

\* The class lookup succeeded and the method lookup, made with the given
\* method name and the computed signature, answered null.
MethodLookupReturnedNull(t) ==
    /\ ~ClassLookupReturnedNull(t)
    /\ \E i \in 1..Len(trace[t]) :
         /\ IsGetStaticMethodID(trace[t][i])
         /\ trace[t][i].mid = NullMethod

\* Both lookups were made and neither answered null.
BothLookupsSucceeded(t) ==
    /\ Len(FindClassCalls(t)) > 0
    /\ Len(GetStaticMethodIDCalls(t)) > 0
    /\ ~ClassLookupReturnedNull(t)
    /\ ~MethodLookupReturnedNull(t)

\* The zero / false / null value of the call's return type.
ZeroResult(t) == [kind |-> ToJavaType(frame[t].ReturnType).Type, v |-> 0]

-----------------------------------------------------------------------------
\* C1: a call whose FindClass answered null reports exactly one diagnostic,
\* returns the default value of its return type and makes neither a
\* GetStaticMethodID nor a CallStatic*Method call.
C1_ClassNotFound ==
    \A t \in Threads :
        ClassLookupReturnedNull(t) =>
            /\ Len(GetStaticMethodIDCalls(t)) = 0
            /\ Len(Invocations(t)) = 0
            /\ Len(Reports(t)) <= 1
            /\ Returned(t) =>
                 /\ Len(Reports(t)) = 1
                 /\ Reports(t)[1].text = <<"class not found [",
                                           frame[t].className, "]">>
                 /\ frame[t].result = ZeroResult(t)

C1_Witness ==
    \E t \in Threads :
        Returned(t) /\ ClassLookupReturnedNull(t) /\ Len(Reports(t)) = 1

\* C2: a call whose FindClass succeeded and whose GetStaticMethodID answered
\* null reports exactly one diagnostic, returns the default value of its
\* return type and calls no CallStatic*Method variant.
C2_MethodNotFound ==
    \A t \in Threads :
        MethodLookupReturnedNull(t) =>
            /\ Len(Invocations(t)) = 0
            /\ Len(Reports(t)) <= 1
            /\ Returned(t) =>
                 /\ Len(Reports(t)) = 1
                 /\ Reports(t)[1].text[1] = "method ["
                 /\ Reports(t)[1].text[2] = frame[t].methodName
                 /\ frame[t].result = ZeroResult(t)

C2_Witness ==
    \E t \in Threads :
        Returned(t) /\ MethodLookupReturnedNull(t) /\ Len(Reports(t)) = 1

\* The call variant the declared return kind selects.
VariantForDeclaredReturn(R) ==
    CASE R = "void"   -> "CallStaticVoidMethod"
      [] R = "bool"   -> "CallStaticBooleanMethod"
      [] R = "int"    -> "CallStaticIntMethod"
      [] R = "long"   -> "CallStaticLongMethod"
      [] R = "float"  -> "CallStaticFloatMethod"
      [] R = "double" -> "CallStaticDoubleMethod"
      [] OTHER        -> "CallStaticObjectMethod"

\* The value a variant answered, as callStaticMethod's result carries it.
ReturnsWhatVariantReturned(t, call) ==
    IF frame[t].ReturnType = "void"
    THEN frame[t].result = VoidValue
    ELSE /\ frame[t].result.v = call.ret.v
         /\ frame[t].result.kind = ToJavaType(frame[t].ReturnType).Type

\* C3: a call whose lookups both succeeded invokes exactly one call variant,
\* once: the one its declared return kind selects, on the class and method
\* handles resolved in this call and with the caller's arguments unchanged
\* and in order; the call returns what the variant returned.
C3_Dispatch ==
    \A t \in Threads :
        (Returned(t) /\ BothLookupsSucceeded(t)) =>
            /\ Len(Invocations(t)) = 1
            /\ LET call == Invocations(t)[1]
               IN  /\ call.op = VariantForDeclaredReturn(frame[t].ReturnType)
                   /\ call.cls = FindClassCalls(t)[1].cls
                   /\ call.mid = GetStaticMethodIDCalls(t)[1].mid
                   /\ call.args = frame[t].givenArguments
                   /\ ReturnsWhatVariantReturned(t, call)

C3_Witness ==
    \E t \in Threads :
        /\ Returned(t) /\ BothLookupsSucceeded(t)
        /\ frame[t].ReturnType = "std::string"
        /\ Len(Invocations(t)) = 1
        /\ Invocations(t)[1].args = <<4, 5>>
        /\ frame[t].result = [kind |-> "jstring", v |-> 1]

\* C4: a returned call has reported a diagnostic and substituted the default
\* value exactly when one of its two lookups answered null; with both
\* lookups successful it reported nothing and returns what the invoked Java
\* method produced; no call reports more than one diagnostic.
C4_ExactlyTwoFailures ==
    \A t \in Threads :
        /\ Len(Reports(t)) <= 1
        /\ Returned(t) =>
             LET failed == ClassLookupReturnedNull(t) \/ MethodLookupReturnedNull(t)
             IN  /\ (Len(Reports(t)) = 1) <=> failed
                 /\ (Len(Invocations(t)) = 0) <=> failed
                 /\ failed => frame[t].result = ZeroResult(t)
                 /\ ~failed => /\ Len(Invocations(t)) = 1
                               /\ ReturnsWhatVariantReturned(t, Invocations(t)[1])

C4_Witness ==
    /\ \E t \in Threads :
         Returned(t) /\ BothLookupsSucceeded(t) /\ Len(Reports(t)) = 0
    /\ \E t \in Threads :
         Returned(t) /\ MethodLookupReturnedNull(t) /\ Len(Reports(t)) = 1

\* C5: callStaticMethod never brings the process down, whatever obtaining
\* the JNI environment and the two lookups yield, and a call that returned
\* after a class-not-found or method-not-found failure leaves no Java
\* exception pending in its thread.
C5_NoCrashNoPendingException ==
    /\ ~crashed
    /\ \A t \in Threads :
         (Returned(t) /\ Len(Reports(t)) > 0) => ~pendingException[t]

\* C6: between calls a thread holds no class reference that callStaticMethod
\* obtained.
C6_NoClassReferenceOutstanding ==
    \A t \in Threads :
        pc[t] \in {"idle", "returned"} => localRefs[t] = 0

\* How a returned call ended, read off what it reported and invoked.
ObservedOutcome(t) ==
    IF Len(Reports(t)) = 0 /\ Len(Invocations(t)) = 1
    THEN "success"
    ELSE IF /\ Len(Reports(t)) = 1 /\ Len(Invocations(t)) = 0
            /\ Reports(t)[1].text[1] = "class not found ["
    THEN "class-not-found"
    ELSE IF /\ Len(Reports(t)) = 1 /\ Len(Invocations(t)) = 0
            /\ Reports(t)[1].text[1] = "method ["
    THEN "method-not-found"
    ELSE "other"

\* How the call has to end, given what its own lookups answered.
OutcomeOfOwnLookups(t) ==
    IF Len(FindClassCalls(t)) # 1 THEN "no class lookup"
    ELSE IF FindClassCalls(t)[1].cls = NullClass THEN "class-not-found"
    ELSE IF Len(GetStaticMethodIDCalls(t)) # 1 THEN "no method lookup"
    ELSE IF GetStaticMethodIDCalls(t)[1].mid = NullMethod THEN "method-not-found"
    ELSE "success"

\* C7: every call makes its own FindClass for its class name and, when that
\* succeeds, its own GetStaticMethodID for its method name and signature,
\* whatever earlier calls left behind; how the call ends and what it returns
\* follow from the answers to these lookups alone.
C7_SelfContained ==
    \A t \in Threads :
        Returned(t) =>
            /\ Len(FindClassCalls(t)) = 1
            /\ FindClassCalls(t)[1].text = <<frame[t].className>>
            /\ FindClassCalls(t)[1].cls # NullClass =>
                 /\ Len(GetStaticMethodIDCalls(t)) = 1
                 /\ GetStaticMethodIDCalls(t)[1].text = <<frame[t].methodName>>
                 /\ GetStaticMethodIDCalls(t)[1].sig =
                        getJavaMethodSignature(frame[t].ReturnType,
                                               frame[t].ArgumentTypes)
            /\ ObservedOutcome(t) = OutcomeOfOwnLookups(t)
            /\ ObservedOutcome(t) = "success" =>
                   ReturnsWhatVariantReturned(t, Invocations(t)[1])
            /\ ObservedOutcome(t) # "success" => frame[t].result = ZeroResult(t)

\* A call that succeeded in a thread where an earlier call had failed (its
\* exception is still pending) and an earlier call had found a class.
C7_Witness ==
    \E t \in Threads :
        /\ Returned(t) /\ ObservedOutcome(t) = "success"
        /\ pendingException[t]
        /\ callsMade >= 2

\* C8: under every interleaving a call works with the environment of its own
\* thread and with its own class handle, method handle and signature, and
\* reports and returns what it would have running alone with the same
\* answers from the runtime.
C8_Interleaving ==
    \A t \in Threads :
        /\ pc[t] # "idle" => frame[t].env \in {EnvOf(t), NullEnv}
        /\ \A i \in 1..Len(trace[t]) :
             LET e == trace[t][i]
             IN  /\ (e.cls # NullClass) =>
                        (e.cls.thread = t /\ e.cls = frame[t].javaClass)
                 /\ IsGetStaticMethodID(e) =>
                        e.sig = getJavaMethodSignature(frame[t].ReturnType,
                                                       frame[t].ArgumentTypes)
                 /\ (e.mid # NullMethod) =>
                        /\ e.mid = frame[t].javaMethod
                        /\ e.mid.sig = getJavaMethodSignature(
                                            frame[t].ReturnType,
                                            frame[t].ArgumentTypes)
        /\ Returned(t) =>
             [reported |-> [i \in 1..Len(Reports(t)) |-> Reports(t)[i].text],
              result |-> frame[t].result]
               = callStaticMethodAlone(
                     frame[t].ReturnType, frame[t].ArgumentTypes,
                     frame[t].className, frame[t].methodName,
                     frame[t].javaClass, frame[t].javaMethod,
                     IF Len(Invocations(t)) = 1 THEN Invocations(t)[1].ret
                     ELSE VoidValue)

\* Both threads are inside callStaticMethod at once, each past its own
\* GetStaticMethodID, with different signatures.
C8_Witness ==
    /\ \A t \in Threads :
         pc[t] = "checkMethod" /\ Len(GetStaticMethodIDCalls(t)) = 1
    /\ frame["t1"].methodSignature # frame["t2"].methodSignature
    /\ frame["t1"].javaClass # frame["t2"].javaClass

\* C9: within one call FindClass is made exactly once; GetStaticMethodID at
\* most once, after FindClass answered a class, and on that class; a call
\* variant at most once, after GetStaticMethodID answered a method; after a
\* lookup answered null the call makes no further call to the runtime.
C9_Order ==
    \A t \in Threads :
        LET calls == RuntimeCalls(t)
        IN  /\ pc[t] \in {"idle", "findClass"} => Len(trace[t]) = 0
            /\ pc[t] \in {"checkClass", "checkMethod", "returned"} =>
                 /\ Len(FindClassCalls(t)) = 1
                 /\ IsFindClass(calls[1])
            /\ Len(calls) <= 3
            /\ Len(calls) >= 2 =>
                 /\ IsGetStaticMethodID(calls[2])
                 /\ calls[1].cls # NullClass
                 /\ calls[2].cls = calls[1].cls
            /\ Len(calls) >= 3 =>
                 /\ IsInvocation(calls[3])
                 /\ calls[2].mid # NullMethod
            /\ \A i \in 1..Len(calls) :
                 (\/ IsFindClass(calls[i]) /\ calls[i].cls = NullClass
                  \/ IsGetStaticMethodID(calls[i]) /\ calls[i].mid = NullMethod)
                 => i = Len(calls)

C9_Witness ==
    \E t \in Threads :
        /\ Returned(t)
        /\ Len(RuntimeCalls(t)) = 2
        /\ RuntimeCalls(t)[2].mid = NullMethod

\* A trace without what tells one thread's handles from another's.
Anonymous(tr) ==
    [i \in 1..Len(tr) |->
        [tr[i] EXCEPT !.cls = [cls |-> @.cls, found |-> @ # NullClass]]]

\* A call through the JavaClassType overload (o) and a direct call (d) with
\* JavaClassType::className() as class name, the same template arguments,
\* method name and arguments, and the same answers from the runtime.
SameCall(d, o) ==
    /\ Returned(d) /\ Returned(o)
    /\ frame[d].via = "direct" /\ frame[o].via = "overload"
    /\ frame[d].className = JavaClassName(frame[o].JavaClassType)
    /\ frame[d].ReturnType = frame[o].ReturnType
    /\ frame[d].ArgumentTypes = frame[o].ArgumentTypes
    /\ frame[d].givenMethodName = frame[o].givenMethodName
    /\ frame[d].givenArguments = frame[o].givenArguments
    /\ (frame[d].javaClass = NullClass) <=> (frame[o].javaClass = NullClass)
    /\ (frame[d].javaMethod = NullMethod) <=> (frame[o].javaMethod = NullMethod)
    /\ \A i \in 1..Len(Invocations(d)), j \in 1..Len(Invocations(o)) :
           Invocations(d)[i].ret = Invocations(o)[j].ret

\* C10: the JavaClassType overload and the direct call with
\* JavaClassType::className() make the same calls to the runtime, with the
\* same class name, method name, signature and arguments, report the same
\* diagnostic and return the same value.
C10_OverloadEquivalent ==
    \A d \in Threads, o \in Threads :
        SameCall(d, o) =>
            /\ Anonymous(trace[d]) = Anonymous(trace[o])
            /\ frame[d].result = frame[o].result

C10_Witness ==
    \E d \in Threads, o \in Threads :
        /\ SameCall(d, o)
        /\ Len(Invocations(o)) = 1
        /\ frame[o].result.v = 1

====
